---- MODULE Spec2Model ----
(***************************************************************************)
(* Model of the Abaqus/CAE GUI automation server (mcp_server.py): the      *)
(* cached session, window discovery, script submission through the         *)
(* "Run Script" dialog and the message-log scrape.  Strings are sequences  *)
(* of one-character strings, so prefix, substring, case folding, joining   *)
(* and trimming are computed the way the Python code computes them.        *)
(***************************************************************************)
EXTENDS Integers, Sequences, FiniteSets, TLC

\* ---------------------------------------------------------------- bounds
MaxWindows == 2
MaxObjs == 2
MaxGroups == 2
MaxLines == 2

\* ------------------------------------------------------- string helpers
UpperChars ==
    <<"A","B","C","D","E","F","G","H","I","J","K","L","M","N","O","P","Q","R","S","T","U","V","W","X","Y","Z">>
LowerChars ==
    <<"a","b","c","d","e","f","g","h","i","j","k","l","m","n","o","p","q","r","s","t","u","v","w","x","y","z">>
LowerChar(c) ==
    IF \E i \in 1..Len(UpperChars) : UpperChars[i] = c
    THEN LowerChars[CHOOSE i \in 1..Len(UpperChars) : UpperChars[i] = c]
    ELSE c
Lower(s) ==
    [i \in 1..Len(s) |-> LowerChar(s[i])]
StartsWith(s, p) ==
    Len(s) >= Len(p) /\ SubSeq(s, 1, Len(p)) = p
Contains(s, p) ==
    \E i \in 0..(Len(s) - Len(p)) : SubSeq(s, i + 1, i + Len(p)) = p
IsSpace(c) ==
    c \in {" ", "\n", "\t"}
RECURSIVE LStrip(_)
LStrip(s) ==
    IF s # <<>> /\ IsSpace(Head(s)) THEN LStrip(Tail(s)) ELSE s
RECURSIVE RStrip(_)
RStrip(s) ==
    IF s # <<>> /\ IsSpace(s[Len(s)]) THEN RStrip(SubSeq(s, 1, Len(s) - 1)) ELSE s
Strip(s) ==
    RStrip(LStrip(s))
RECURSIVE Join(_, _)
Join(lines, sep) ==
    IF lines = <<>> THEN <<>>
    ELSE IF Len(lines) = 1 THEN lines[1]
    ELSE lines[1] \o sep \o Join(Tail(lines), sep)
ReplaceChar(s, a, b) ==
    [i \in 1..Len(s) |-> IF s[i] = a THEN b ELSE s[i]]

\* ------------------------------------------------------ string literals
TitleQuery ==
    <<"A", "b", "a", "q", "u", "s", "/", "C", "A", "E">>
MarkAbaqus ==
    <<"a", "b", "a", "q", "u", "s">>
MarkCae ==
    <<"c", "a", "e">>
MarkViewer ==
    <<"v", "i", "e", "w", "e", "r">>
TextRunScript ==
    <<"R", "u", "n", " ", "S", "c", "r", "i", "p", "t">>
TextSelectFile ==
    <<"S", "e", "l", "e", "c", "t", " ", "f", "i", "l", "e">>
MsgExecWindowNotFound ==
    <<"A", "b", "a", "q", "u", "s", "/", "C", "A", "E", " ", "w", "i", "n", "d", "o", "w", " ", "n", "o", "t", " ", "f", "o", "u", "n", "d", ".", " ", "P", "l", "e", "a", "s", "e", " ", "e", "n", "s", "u", "r", "e", " ", "A", "b", "a", "q", "u", "s", "/", "C", "A", "E", " ", "w", "i", "t", "h", " ", "G", "U", "I", " ", "i", "s", " ", "r", "u", "n", "n", "i", "n", "g", " ", "a", "n", "d", " ", "n", "o", "t", " ", "m", "i", "n", "i", "m", "i", "z", "e", "d", " ", "i", "n", "i", "t", "i", "a", "l", "l", "y", ".">>
MsgLogWindowNotFound ==
    <<"A", "b", "a", "q", "u", "s", "/", "C", "A", "E", " ", "w", "i", "n", "d", "o", "w", " ", "n", "o", "t", " ", "f", "o", "u", "n", "d", ".", " ", "C", "a", "n", "n", "o", "t", " ", "r", "e", "t", "r", "i", "e", "v", "e", " ", "m", "e", "s", "s", "a", "g", "e", " ", "l", "o", "g", ".">>
MsgDialogNotFoundExc ==
    <<"'", "R", "u", "n", " ", "S", "c", "r", "i", "p", "t", "'", " ", "d", "i", "a", "l", "o", "g", " ", "n", "o", "t", " ", "f", "o", "u", "n", "d", " ", "o", "r", " ", "t", "i", "t", "l", "e", " ", "m", "i", "s", "m", "a", "t", "c", "h", " ", "a", "f", "t", "e", "r", " ", "m", "e", "n", "u", " ", "c", "l", "i", "c", "k", ".">>
MsgFailedFindDialog ==
    <<"F", "a", "i", "l", "e", "d", " ", "t", "o", " ", "f", "i", "n", "d", " ", "o", "r", " ", "i", "d", "e", "n", "t", "i", "f", "y", " ", "t", "h", "e", " ", "'", "R", "u", "n", " ", "S", "c", "r", "i", "p", "t", "'", " ", "d", "i", "a", "l", "o", "g", ":", " ">>
MsgEditNotFoundExc ==
    <<"F", "i", "l", "e", " ", "n", "a", "m", "e", " ", "i", "n", "p", "u", "t", " ", "f", "i", "e", "l", "d", " ", "(", "E", "d", "i", "t", " ", "c", "o", "n", "t", "r", "o", "l", ")", " ", "n", "o", "t", " ", "f", "o", "u", "n", "d", " ", "i", "n", " ", "'", "R", "u", "n", " ", "S", "c", "r", "i", "p", "t", "'", " ", "d", "i", "a", "l", "o", "g", ".", " ", "S", "e", "a", "r", "c", "h", "e", "d", " ", "b", "y", " ", "t", "i", "t", "l", "e", " ", "'", "F", "i", "l", "e", " ", "&", "n", "a", "m", "e", ":", "'", ",", " ", "t", "h", "e", "n", " ", "b", "y", " ", "t", "y", "p", "e", "/", "i", "n", "d", "e", "x", ".">>
MsgButtonNotFoundExc ==
    <<"O", "K", "/", "R", "u", "n", "/", "O", "p", "e", "n", " ", "b", "u", "t", "t", "o", "n", " ", "n", "o", "t", " ", "f", "o", "u", "n", "d", " ", "i", "n", " ", "'", "R", "u", "n", " ", "S", "c", "r", "i", "p", "t", "'", " ", "d", "i", "a", "l", "o", "g", ".", " ", "S", "e", "a", "r", "c", "h", "e", "d", " ", "b", "y", " ", "t", "i", "t", "l", "e", " ", "r", "e", "g", "e", "x", " ", "'", "O", "K", "|", "R", "u", "n", "|", "O", "p", "e", "n", "'", ",", " ", "t", "h", "e", "n", " ", "b", "y", " ", "t", "y", "p", "e", "/", "i", "n", "d", "e", "x", ".">>
MsgSubmitted ==
    <<"S", "c", "r", "i", "p", "t", " ", "s", "u", "b", "m", "i", "t", "t", "e", "d", " ", "f", "o", "r", " ", "e", "x", "e", "c", "u", "t", "i", "o", "n", " ", "v", "i", "a", " ", "F", "i", "l", "e", "-", ">", "R", "u", "n", " ", "S", "c", "r", "i", "p", "t", ":", " ">>
MsgFailedInteract ==
    <<"F", "a", "i", "l", "e", "d", " ", "t", "o", " ", "i", "n", "t", "e", "r", "a", "c", "t", " ", "w", "i", "t", "h", " ", "'", "R", "u", "n", " ", "S", "c", "r", "i", "p", "t", "'", " ", "d", "i", "a", "l", "o", "g", " ", "(", "e", ".", "g", ".", ",", " ", "i", "n", "p", "u", "t", " ", "s", "c", "r", "i", "p", "t", " ", "p", "a", "t", "h", " ", "o", "r", " ", "c", "l", "i", "c", "k", " ", "O", "K", ")", ":", " ">>
MsgTimeout ==
    <<"T", "i", "m", "e", "o", "u", "t", " ", "o", "c", "c", "u", "r", "r", "e", "d", " ", "d", "u", "r", "i", "n", "g", " ", "G", "U", "I", " ", "o", "p", "e", "r", "a", "t", "i", "o", "n", ":", " ">>
MsgExecError ==
    <<"A", "n", " ", "e", "r", "r", "o", "r", " ", "o", "c", "c", "u", "r", "r", "e", "d", " ", "d", "u", "r", "i", "n", "g", " ", "s", "c", "r", "i", "p", "t", " ", "e", "x", "e", "c", "u", "t", "i", "o", "n", " ", "a", "t", "t", "e", "m", "p", "t", ":", " ">>
MsgLogHeader ==
    <<"M", "e", "s", "s", "a", "g", "e", " ", "L", "o", "g", " ", "C", "o", "n", "t", "e", "n", "t", " ", "(", "b", "e", "s", "t", " ", "e", "f", "f", "o", "r", "t", " ", "e", "x", "t", "r", "a", "c", "t", "i", "o", "n", ")", ":", "\n", "-", "-", "-", "-", "-", "-", "-", "-", "-", "-", "-", "-", "-", "-", "-", "-", "-", "-", "-", "-", "-", "-", "-", "-", "\n">>
MsgLogFooter ==
    <<"\n", "-", "-", "-", "-", "-", "-", "-", "-", "-", "-", "-", "-", "-", "-", "-", "-", "-", "-", "-", "-", "-", "-", "-", "-">>
MsgLogNoText ==
    <<"F", "o", "u", "n", "d", " ", "a", " ", "p", "o", "t", "e", "n", "t", "i", "a", "l", " ", "m", "e", "s", "s", "a", "g", "e", " ", "a", "r", "e", "a", " ", "U", "I", " ", "e", "l", "e", "m", "e", "n", "t", ",", " ", "b", "u", "t", " ", "c", "o", "u", "l", "d", " ", "n", "o", "t", " ", "e", "x", "t", "r", "a", "c", "t", " ", "t", "e", "x", "t", " ", "c", "o", "n", "t", "e", "n", "t", ".", " ", "T", "h", "e", " ", "c", "o", "n", "t", "r", "o", "l", " ", "m", "i", "g", "h", "t", " ", "b", "e", " ", "c", "u", "s", "t", "o", "m", ",", " ", "e", "m", "p", "t", "y", ",", " ", "o", "r", " ", "t", "e", "x", "t", " ", "e", "x", "t", "r", "a", "c", "t", "i", "o", "n", " ", "m", "e", "t", "h", "o", "d", " ", "f", "a", "i", "l", "e", "d", ".", " ", "M", "o", "r", "e", " ", "s", "p", "e", "c", "i", "f", "i", "c", " ", "i", "n", "s", "p", "e", "c", "t", " ", "d", "e", "t", "a", "i", "l", "s", " ", "a", "r", "e", " ", "n", "e", "e", "d", "e", "d", ".">>
MsgLogNotFound ==
    <<"M", "e", "s", "s", "a", "g", "e", " ", "a", "r", "e", "a", " ", "U", "I", " ", "e", "l", "e", "m", "e", "n", "t", " ", "n", "o", "t", " ", "f", "o", "u", "n", "d", " ", "u", "s", "i", "n", "g", " ", "c", "u", "r", "r", "e", "n", "t", " ", "h", "e", "u", "r", "i", "s", "t", "i", "c", "s", ".", " ", "F", "o", "r", " ", "r", "e", "l", "i", "a", "b", "l", "e", " ", "m", "e", "s", "s", "a", "g", "e", " ", "l", "o", "g", " ", "r", "e", "t", "r", "i", "e", "v", "a", "l", ",", " ", "p", "l", "e", "a", "s", "e", " ", "u", "s", "e", " ", "a", "n", " ", "i", "n", "s", "p", "e", "c", "t", " ", "t", "o", "o", "l", " ", "t", "o", " ", "i", "d", "e", "n", "t", "i", "f", "y", " ", "t", "h", "e", " ", "s", "p", "e", "c", "i", "f", "i", "c", " ", "p", "r", "o", "p", "e", "r", "t", "i", "e", "s", " ", "(", "e", ".", "g", ".", ",", " ", "A", "u", "t", "o", "m", "a", "t", "i", "o", "n", "I", "d", ",", " ", "N", "a", "m", "e", ",", " ", "C", "l", "a", "s", "s", "N", "a", "m", "e", ")", " ", "o", "f", " ", "t", "h", "e", " ", "A", "b", "a", "q", "u", "s", " ", "m", "e", "s", "s", "a", "g", "e", " ", "a", "r", "e", "a", " ", "a", "n", "d", " ", "u", "p", "d", "a", "t", "e", " ", "t", "h", "i", "s", " ", "f", "u", "n", "c", "t", "i", "o", "n", "'", "s", " ", "s", "e", "a", "r", "c", "h", " ", "l", "o", "g", "i", "c", ".">>
MsgLogError ==
    <<"A", "n", " ", "e", "r", "r", "o", "r", " ", "o", "c", "c", "u", "r", "r", "e", "d", " ", "w", "h", "i", "l", "e", " ", "t", "r", "y", "i", "n", "g", " ", "t", "o", " ", "r", "e", "t", "r", "i", "e", "v", "e", " ", "t", "h", "e", " ", "A", "b", "a", "q", "u", "s", " ", "m", "e", "s", "s", "a", "g", "e", " ", "l", "o", "g", ":", " ">>
ClassMarker ==
    <<"F", "X", "W", "i", "n", "d", "o", "w">>

\* --------------------------------------------------------------- values
\* Python's None, and the objects the program holds references to.
None ==
    [obj |-> "None"]
Truthy(x) ==
    x # None
AppObj(id, hwnd) ==
    [obj |-> "Application", id |-> id, hwnd |-> hwnd]
WinSpec(id, hwnd) ==
    [obj |-> "WindowSpecification", id |-> id, hwnd |-> hwnd]
WinRef(hwnd) ==
    [obj |-> "Win32Window", hwnd |-> hwnd]

\* Exceptions a collaborator call can raise.
TimeoutError ==
    [type |-> "TimeoutError", msg |-> <<"t", "i", "m", "e", "d", " ", "o", "u", "t">>]
RuntimeError ==
    [type |-> "RuntimeError", msg |-> <<"f", "a", "i", "l", "e", "d">>]
TypeError ==
    [type |-> "TypeError", msg |-> <<"'", ">", "'", " ", "n", "o", "t", " ", "s", "u", "p", "p", "o", "r", "t", "e", "d">>]
AttributeError ==
    [type |-> "AttributeError", msg |-> <<"n", "o", " ", "s", "t", "r", "i", "p">>]
CollaboratorErrors ==
    {TimeoutError, RuntimeError}
PsutilErrors ==
    {"NoSuchProcess", "AccessDenied", "ZombieProcess"}

\* ---------------------------------------------------------- environment
\* Top-level windows of the desktop.  A slot number is the window handle and
\* the slots are listed in enumeration order; an empty slot holds NoWindow.
TitleCae ==
    <<"A", "b", "a", "q", "u", "s", "/", "C", "A", "E", " ", "2", "0", "2", "3">>
TitleNotPrefix ==
    <<"L", "o", "g", " ", "-", " ", "A", "b", "a", "q", "u", "s", "/", "C", "A", "E">>
ProcCae ==
    <<"a", "b", "a", "q", "u", "s", "_", "c", "a", "e", ".", "e", "x", "e">>
ProcViewer ==
    <<"A", "B", "A", "Q", "U", "S", "_", "V", "i", "e", "w", "e", "r", ".", "E", "X", "E">>
ProcCoreOnly ==
    <<"a", "b", "a", "q", "u", "s", ".", "e", "x", "e">>
NoWindow ==
    [title |-> <<>>, proc |-> <<>>, procErr |-> "closed", visible |-> FALSE]
WinKinds ==
    { [title |-> TitleCae, proc |-> ProcCae, procErr |-> "", visible |-> TRUE],
      [title |-> TitleCae, proc |-> ProcViewer, procErr |-> "", visible |-> FALSE],
      [title |-> TitleCae, proc |-> ProcCoreOnly, procErr |-> "", visible |-> TRUE],
      [title |-> TitleCae, proc |-> <<>>, procErr |-> "AccessDenied", visible |-> TRUE],
      [title |-> TitleNotPrefix, proc |-> ProcCae, procErr |-> "", visible |-> TRUE] }
Hwnds ==
    1..MaxWindows
ObjIds ==
    1..MaxObjs

\* The accessibility tree under the main window: Pane and Edit descendants.
\* A line of text is a string or Python's None; texts() is a list of groups.
Line(s) ==
    [null |-> FALSE, s |-> s]
NullLine ==
    [null |-> TRUE, s |-> <<>>]
Line1 ==
    Line(<<"L", "i", "n", "e", " ", "1">>)
Line2 ==
    Line(<<"L", "i", "n", "e", " ", "2">>)
Line3 ==
    Line(<<"L", "i", "n", "e", " ", "3">>)
EmptyLine ==
    Line(<<>>)
BlankLine ==
    Line(<<" ">>)
ClassFX ==
    <<"S", "o", "m", "e", "F", "X", "W", "i", "n", "d", "o", "w">>
ClassOther ==
    <<"A", "f", "x", "F", "r", "a", "m", "e">>
PaneLog ==
    [visible |-> TRUE, height |-> 150, width |-> 300, class_name |-> ClassFX,
     texts |-> << <<Line1, Line2>>, <<EmptyLine, Line3>> >>, window_text |-> <<>>]
PaneHidden ==
    [visible |-> FALSE, height |-> 150, width |-> 300, class_name |-> ClassFX,
     texts |-> << <<Line1>> >>, window_text |-> <<>>]
EditLog ==
    [visible |-> TRUE, editable |-> FALSE, height |-> 60, width |-> 300,
     texts |-> << <<Line2, BlankLine, Line3>> >>, window_text |-> <<>>]
EditInput ==
    [visible |-> TRUE, editable |-> TRUE, height |-> 20, width |-> 300,
     texts |-> << <<Line1>> >>, window_text |-> <<>>]
NoTree ==
    [panes |-> <<>>, edits |-> <<>>]
TreeKinds ==
    { [panes |-> <<>>, edits |-> <<>>],
      [panes |-> <<PaneLog>>, edits |-> <<>>],
      [panes |-> <<PaneHidden>>, edits |-> <<EditLog>>],
      [panes |-> <<PaneHidden>>, edits |-> <<EditInput>>],
      [panes |-> <<PaneHidden, PaneLog>>, edits |-> <<EditLog>>] }

\* The name tempfile hands out (with a forward slash in it).
TempPath ==
    <<"C", ":", "\\", "T", "/", "a", ".", "p", "y">>

\* Script texts a caller can pass: one that encodes as UTF-8 and one holding
\* a lone surrogate ("\ud800"), which the utf-8 codec refuses to encode.
CodeOk ==
    <<"p", "r", "i", "n", "t", "(", "1", ")">>
CodeSurrogate ==
    <<"x", "=", "'", "SURROGATE_D800", "'">>
Codes ==
    {CodeOk, CodeSurrogate}
Utf8Encodable(code) ==
    \A i \in 1..Len(code) : code[i] # "SURROGATE_D800"

\* ---------------------------------------------------------------- state
VARIABLES
    abaqus_app_instance_cache,  \* module global, line 19
    abaqus_main_window_cache,   \* module global, line 18
    windows,                    \* desktop: window handle -> window (or NoWindow)
    files,                      \* temporary files present on disk
    op,                         \* operation in flight: none, find, exec, log
    pc,                         \* position inside the operation
    loc,                        \* local variables of the operation
    calls,                      \* collaborator calls made by the operation so far
    result,                     \* what the operation returned (or raised)
    last_reply,                 \* the caller's record of the preceding log reply
    submission                  \* the path the target was told to run, and its read of it

vars ==
    <<abaqus_app_instance_cache, abaqus_main_window_cache, windows, files,
      op, pc, loc, calls, result, last_reply, submission>>

NoResult ==
    [kind |-> "none"]
LocInit ==
    [stale_app |-> None, stale_win |-> None, found_win_obj |-> None,
     app |-> None, main_window |-> None, python_code |-> <<>>,
     script_file_path |-> None, script_file_path_for_dialog |-> None,
     run_script_dialog |-> None, dialog_found |-> FALSE,
     file_name_edit |-> None, ok_button |-> None, error_detail |-> <<>>,
     message_area_control |-> None, tree |-> NoTree]

Init ==
    /\ abaqus_app_instance_cache = None
    /\ abaqus_main_window_cache = None
    /\ windows \in [Hwnds -> WinKinds \cup {NoWindow}]
    /\ files = {}
    /\ op = "none"
    /\ pc = "idle"
    /\ loc = LocInit
    /\ calls = <<>>
    /\ result = NoResult
    /\ last_reply = None
    /\ submission = None

Call(name, arg) ==
    [call |-> name, arg |-> arg]

\* A logged call together with how it ended: "true", "false" or "raised".
Query(name, arg, ok) ==
    [call |-> name, arg |-> arg, ok |-> ok]

\* ------------------------------------------------ the target application
\* Between operations the desktop may change in any way.
\* What the caller's record holds once the target changed under a running call.
Changed == [obj |-> "Changed"]

TargetChangesWindow ==
    /\ pc = "idle"
    /\ \E h \in Hwnds, w \in WinKinds \cup {NoWindow} :
          /\ windows[h] # w
          /\ windows' = [windows EXCEPT ![h] = w]
    /\ last_reply' = None
    /\ UNCHANGED <<abaqus_app_instance_cache, abaqus_main_window_cache,
                   files, op, pc, loc, calls, result, submission>>

\* The window an operation is working on may be closed while it runs (the
\* closing of any other window is not observed before the operation ends).
InUse ==
    IF pc = "find_connect" THEN loc.found_win_obj
    ELSE IF pc \in {"exec_check", "log_check"} THEN loc.main_window
    ELSE None

TargetClosesWindow ==
    /\ Truthy(InUse)
    /\ windows[InUse.hwnd] # NoWindow
    /\ windows' = [windows EXCEPT ![InUse.hwnd] = NoWindow]
    /\ last_reply' = Changed
    /\ UNCHANGED <<abaqus_app_instance_cache, abaqus_main_window_cache,
                   files, op, pc, loc, calls, result, submission>>

\* ------------------------------------------------- entering an operation
Begin(o, code) ==
    /\ pc = "idle"
    /\ op' = o
    /\ pc' = "find_cache"
    /\ loc' = [LocInit EXCEPT !.stale_app = abaqus_app_instance_cache,
                              !.stale_win = abaqus_main_window_cache,
                              !.python_code = code]
    /\ calls' = <<>>
    /\ result' = NoResult
    /\ last_reply' = IF o = "log" THEN last_reply ELSE None
    /\ UNCHANGED <<abaqus_app_instance_cache, abaqus_main_window_cache, windows,
                   files, submission>>

CallFind ==
    Begin("find", <<>>)

CallExecuteScript ==
    \E code \in Codes : Begin("exec", code)

CallGetLog ==
    Begin("log", <<>>)

\* Whether some call of the log ended by raising.
AnyRaised(log) ==
    \E i \in 1..Len(log) : "ok" \in DOMAIN log[i] /\ log[i].ok = "raised"

\* What the caller keeps of a reply of get_abaqus_message_log: the string,
\* the window and tree it was read from, and whether a collaborator failed.
Reply ==
    [result |-> result, main_window |-> loc.main_window, tree |-> loc.tree,
     raised |-> AnyRaised(calls)]

\* The operation has returned (or raised); the server is idle again.
Return ==
    /\ pc = "done"
    /\ pc' = "idle"
    /\ op' = "none"
    /\ loc' = LocInit
    /\ calls' = <<>>
    /\ result' = NoResult
    /\ last_reply' = IF op = "log" /\ result.kind = "str" /\ last_reply # Changed
                     THEN Reply ELSE None
    /\ submission' = None
    /\ UNCHANGED <<abaqus_app_instance_cache, abaqus_main_window_cache, windows,
                   files>>

\* An exception leaves the operation uncaught.
Escapes(e) ==
    /\ pc' = "done"
    /\ result' = [kind |-> "raised", exc |-> e]

\* ---------------------------------------- find_abaqus_window_and_app
WinExists(hwnd) ==
    windows[hwnd] # NoWindow
WinVisible(hwnd) ==
    windows[hwnd].visible

\* ------------------------------------------------ weakened conditions
\* Variants of the program's conditions, each dropping or changing one
\* conjunct; the properties below are checked to be sensitive to them.
AcceptsHiddenWindow(hwnd) ==
    WinExists(hwnd)
CacheValidIgnoringVisibility(app, win) ==
    IF Truthy(app) /\ Truthy(win) THEN WinExists(win.hwnd) ELSE FALSE
CacheNeverValid(app, win) ==
    FALSE
TitleMatchesAnywhere(title) ==
    Contains(title, TitleQuery)
ProcessNameMatchesAbaqusOnly(name) ==
    Contains(Lower(name), MarkAbaqus)
EditTiersSkippingSecond(e1, e2, e3) ==
    IF e1 THEN <<1>> ELSE <<1, 3>>
DialogAlwaysFound(d1, d2, ch) ==
    TRUE
PathUnchanged(path) ==
    path


SetTextSkipped ==
    /\ pc = "exec_settext"
    /\ pc' = "exec_button"
    /\ UNCHANGED <<abaqus_app_instance_cache, abaqus_main_window_cache, windows,
                   files, op, loc, calls, result, last_reply, submission>>
\* Lines 39-40: the condition under which the cached pair is returned.
CacheValid(app, win) ==
    IF Truthy(app) /\ Truthy(win)
    THEN WinExists(win.hwnd) /\ WinVisible(win.hwnd)
    ELSE FALSE

\* The calls lines 39-40 make before the condition is decided.
CacheCheckCalls(app, win) ==
    IF ~(Truthy(app) /\ Truthy(win)) THEN <<>>
    ELSE IF ~WinExists(win.hwnd) THEN <<Call("cache.exists", win.hwnd)>>
    ELSE <<Call("cache.exists", win.hwnd), Call("cache.is_visible", win.hwnd)>>

\* find_abaqus_window_and_app returns (a, w): to the test that called it, or
\* to line 101 or 248, where the pair is unpacked (find's own locals are gone).
FindReturns(a, w) ==
    IF op = "find"
    THEN /\ pc' = "done"
         /\ result' = [kind |-> "pair", app |-> a, main_window |-> w]
         /\ loc' = loc
    ELSE /\ pc' = IF op = "exec" THEN "exec_check" ELSE "log_check"
         /\ result' = result
         /\ loc' = [loc EXCEPT !.app = a, !.main_window = w,
                               !.stale_app = None, !.stale_win = None,
                               !.found_win_obj = None]

FindCacheHit ==
    /\ pc = "find_cache"
    /\ CacheValid(abaqus_app_instance_cache, abaqus_main_window_cache)
    /\ calls' = calls \o CacheCheckCalls(abaqus_app_instance_cache,
                                         abaqus_main_window_cache)
    /\ FindReturns(abaqus_app_instance_cache, abaqus_main_window_cache)
    /\ UNCHANGED <<abaqus_app_instance_cache, abaqus_main_window_cache, windows,
                   files, op, last_reply, submission>>

FindCacheMiss ==
    /\ pc = "find_cache"
    /\ ~CacheValid(abaqus_app_instance_cache, abaqus_main_window_cache)
    /\ calls' = calls \o CacheCheckCalls(abaqus_app_instance_cache,
                                         abaqus_main_window_cache)
    /\ abaqus_app_instance_cache' = None
    /\ abaqus_main_window_cache' = None
    /\ pc' = "find_enum"
    /\ UNCHANGED <<windows, files, op, loc, result, last_reply, submission>>

\* exists() or is_visible() of the cached window raises: nothing catches it.
FindCacheRaises ==
    /\ pc = "find_cache"
    /\ Truthy(abaqus_app_instance_cache)
    /\ Truthy(abaqus_main_window_cache)
    /\ \E e \in CollaboratorErrors :
          /\ \/ calls' = calls \o
                   <<Call("cache.exists", abaqus_main_window_cache.hwnd)>>
             \/ /\ WinExists(abaqus_main_window_cache.hwnd)
                /\ calls' = calls \o
                      <<Call("cache.exists", abaqus_main_window_cache.hwnd),
                        Call("cache.is_visible", abaqus_main_window_cache.hwnd)>>
          /\ Escapes(e)
    /\ UNCHANGED <<abaqus_app_instance_cache, abaqus_main_window_cache, windows,
                   files, op, loc, last_reply, submission>>

\* ------------------------------------------------------- returned strings
\* A returned string is a fixed text followed by a detail (and, for the log,
\* a footer); str(e) of an exception is its message.
MessageText(name) ==
    CASE name = "MsgExecWindowNotFound" -> MsgExecWindowNotFound
      [] name = "MsgLogWindowNotFound" -> MsgLogWindowNotFound
      [] name = "MsgFailedFindDialog" -> MsgFailedFindDialog
      [] name = "MsgSubmitted" -> MsgSubmitted
      [] name = "MsgFailedInteract" -> MsgFailedInteract
      [] name = "MsgTimeout" -> MsgTimeout
      [] name = "MsgExecError" -> MsgExecError
      [] name = "MsgLogContent" -> MsgLogHeader
      [] name = "MsgLogNoText" -> MsgLogNoText
      [] name = "MsgLogNotFound" -> MsgLogNotFound
      [] name = "MsgLogError" -> MsgLogError
MessageFooter(name) ==
    IF name = "MsgLogContent" THEN MsgLogFooter ELSE <<>>
Str(name, detail) ==
    [kind |-> "str", msg |-> name, detail |-> detail]
Text(r) ==
    MessageText(r.msg) \o r.detail \o MessageFooter(r.msg)
Raise(type, msg) ==
    [type |-> type, msg |-> msg]

\* Line 46: gw.getWindowsWithTitle(q) lists, in enumeration order, the windows
\* whose title contains q (case-insensitively).
HwndSeq ==
    [i \in 1..MaxWindows |-> i]
TitleListed(hwnd) ==
    /\ windows[hwnd] # NoWindow
    /\ Contains(Lower(windows[hwnd].title), Lower(TitleQuery))
GetWindowsWithTitle ==
    SelectSeq(HwndSeq, TitleListed)

\* Line 49.
TitleMatches(title) ==
    StartsWith(title, TitleQuery)

\* Lines 53-54.
ProcessNameMatches(name) ==
    /\ Contains(Lower(name), MarkAbaqus)
    /\ \/ Contains(Lower(name), MarkCae)
       \/ Contains(Lower(name), MarkViewer)

\* Lines 47-58: the loop over the listed windows, from position i on.  The
\* result is found_win_obj and the process lookups made on the way.
RECURSIVE ScanWindows(_, _)
ScanWindows(wins, i) ==
    IF i > Len(wins) THEN [found |-> None, calls |-> <<>>]
    ELSE LET h == wins[i]
             w == windows[h]
             lookup == <<Call("GetWindowThreadProcessId", h),
                         Call("psutil.Process", h)>>
             rest == ScanWindows(wins, i + 1)
         IN  IF ~TitleMatches(w.title) THEN rest
             ELSE IF w.procErr \in PsutilErrors
                  THEN [found |-> rest.found, calls |-> lookup \o rest.calls]
             ELSE IF ProcessNameMatches(w.proc)
                  THEN [found |-> WinRef(h), calls |-> lookup]
             ELSE [found |-> rest.found, calls |-> lookup \o rest.calls]

FindEnumerate ==
    /\ pc = "find_enum"
    /\ LET scan == ScanWindows(GetWindowsWithTitle, 1)
       IN  /\ loc' = [loc EXCEPT !.found_win_obj = scan.found]
           /\ calls' = calls \o <<Call("gw.getWindowsWithTitle", 0)>> \o scan.calls
    /\ pc' = "find_connect"
    /\ UNCHANGED <<abaqus_app_instance_cache, abaqus_main_window_cache, windows,
                   files, op, result, last_reply, submission>>

\* The enumeration, or a process lookup with an error other than the three
\* psutil ones of line 57, raises: nothing catches it.
FindEnumerateRaises ==
    /\ pc = "find_enum"
    /\ LET scan == ScanWindows(GetWindowsWithTitle, 1)
       IN  \E e \in CollaboratorErrors :
              /\ \/ calls' = calls \o <<Call("gw.getWindowsWithTitle", 0)>>
                 \/ \E k \in 1..Len(scan.calls) :
                       /\ scan.calls[k].call = "GetWindowThreadProcessId"
                       /\ calls' = calls \o <<Call("gw.getWindowsWithTitle", 0)>>
                                         \o SubSeq(scan.calls, 1, k)
              /\ Escapes(e)
    /\ UNCHANGED <<abaqus_app_instance_cache, abaqus_main_window_cache, windows,
                   files, op, loc, last_reply, submission>>

\* A new object never has the identity of one the caller still holds.
FreshId ==
    CHOOSE i \in ObjIds :
        /\ (Truthy(loc.stale_app) => i # loc.stale_app.id)
        /\ \A j \in ObjIds :
              (Truthy(loc.stale_app) => j # loc.stale_app.id) => i <= j

\* Line 65: the condition under which a new connection is accepted.
ConnectionAccepted(hwnd) ==
    /\ WinExists(hwnd)
    /\ WinVisible(hwnd)

ConnectCalls(hwnd) ==
    <<Call("Application.connect", hwnd), Call("app.window", hwnd),
      Call("main_window.exists", hwnd)>>
    \o (IF WinExists(hwnd) THEN <<Call("main_window.is_visible", hwnd)>> ELSE <<>>)

\* Line 60 with nothing found, then line 72.
FindNoCandidate ==
    /\ pc = "find_connect"
    /\ ~Truthy(loc.found_win_obj)
    /\ calls' = calls
    /\ FindReturns(None, None)
    /\ UNCHANGED <<abaqus_app_instance_cache, abaqus_main_window_cache, windows,
                   files, op, last_reply, submission>>

\* Lines 60-68.
FindConnectAccepted ==
    /\ pc = "find_connect"
    /\ Truthy(loc.found_win_obj)
    /\ LET h == loc.found_win_obj.hwnd
       IN  /\ ConnectionAccepted(h)
           /\ calls' = calls \o ConnectCalls(h)
           /\ abaqus_app_instance_cache' = AppObj(FreshId, h)
           /\ abaqus_main_window_cache' = WinSpec(FreshId, h)
           /\ FindReturns(AppObj(FreshId, h), WinSpec(FreshId, h))
    /\ UNCHANGED <<windows, files, op, last_reply, submission>>

\* Lines 60-65 with the window gone or hidden, then line 72.
FindConnectRejected ==
    /\ pc = "find_connect"
    /\ Truthy(loc.found_win_obj)
    /\ LET h == loc.found_win_obj.hwnd
       IN  /\ ~ConnectionAccepted(h)
           /\ calls' = calls \o ConnectCalls(h)
    /\ FindReturns(None, None)
    /\ UNCHANGED <<abaqus_app_instance_cache, abaqus_main_window_cache, windows,
                   files, op, last_reply, submission>>

\* Lines 61-70: connect, exists or is_visible raises; line 69 catches it.
FindConnectFails ==
    /\ pc = "find_connect"
    /\ Truthy(loc.found_win_obj)
    /\ LET h == loc.found_win_obj.hwnd
       IN  \E n \in 1..Len(ConnectCalls(h)) :
              /\ n # 2
              /\ calls' = calls \o SubSeq(ConnectCalls(h), 1, n - 1)
                                \o <<Query(ConnectCalls(h)[n].call, h, "raised")>>
    /\ FindReturns(None, None)
    /\ UNCHANGED <<abaqus_app_instance_cache, abaqus_main_window_cache, windows,
                   files, op, last_reply, submission>>


\* ------------------------------------------------------- execute_script
\* Lines 103 and 250: the condition of the window-not-found return.
WindowMissing(main_window) ==
    IF Truthy(main_window) THEN ~WinExists(main_window.hwnd) ELSE TRUE

CheckCalls(main_window) ==
    IF Truthy(main_window)
    THEN <<Call("main_window.exists", main_window.hwnd)>>
    ELSE <<>>

\* Lines 103-106.
ExecWindowNotFound ==
    /\ pc = "exec_check"
    /\ WindowMissing(loc.main_window)
    /\ calls' = calls \o CheckCalls(loc.main_window)
    /\ abaqus_app_instance_cache' = None
    /\ abaqus_main_window_cache' = None
    /\ pc' = "done"
    /\ result' = Str("MsgExecWindowNotFound", <<>>)
    /\ UNCHANGED <<windows, files, op, loc, last_reply, submission>>

\* Line 103 evaluates to false: the operation goes on to line 108.
ExecWindowFound ==
    /\ pc = "exec_check"
    /\ ~WindowMissing(loc.main_window)
    /\ calls' = calls \o CheckCalls(loc.main_window)
    /\ pc' = "exec_prepare"
    /\ UNCHANGED <<abaqus_app_instance_cache, abaqus_main_window_cache, windows,
                   files, op, loc, result, last_reply, submission>>

\* Line 103: main_window.exists() raises outside every try block.
ExecCheckRaises ==
    /\ pc = "exec_check"
    /\ Truthy(loc.main_window)
    /\ calls' = calls \o CheckCalls(loc.main_window)
    /\ \E e \in CollaboratorErrors : Escapes(e)
    /\ UNCHANGED <<abaqus_app_instance_cache, abaqus_main_window_cache, windows,
                   files, op, loc, last_reply, submission>>

\* Lines 209-216: the handlers of the outer try block; then the finally block.
MainHandler(e) ==
    /\ abaqus_app_instance_cache' = None
    /\ abaqus_main_window_cache' = None
    /\ result' = IF e.type = "TimeoutError"
                 THEN Str("MsgTimeout", e.msg)
                 ELSE Str("MsgExecError", e.msg)
    /\ pc' = "exec_finally"

OSError ==
    Raise("OSError", <<"n", "o", " ", "f", "i", "l", "e">>)
UnicodeEncodeError ==
    Raise("UnicodeEncodeError",
          <<"s", "u", "r", "r", "o", "g", "a", "t", "e", "s">>)

\* Line 111: the temporary file cannot be created; nothing is put on disk
\* and script_file_path stays None.
ExecTempFails ==
    /\ pc = "exec_prepare"
    /\ calls' = calls \o <<Query("tempfile.NamedTemporaryFile", 0, "raised")>>
    /\ MainHandler(OSError)
    /\ UNCHANGED <<windows, files, op, loc, last_reply, submission>>

\* Lines 111-112: the file is created (delete=False) and write() raises
\* before line 113 assigns script_file_path.
ExecWriteFails ==
    /\ pc = "exec_prepare"
    /\ TempPath \notin files
    /\ ~Utf8Encodable(loc.python_code)
    /\ files' = files \cup {TempPath}
    /\ calls' = calls \o <<Query("tempfile.NamedTemporaryFile", 0, "true"),
                           Query("tmp_script.write", 0, "raised")>>
    /\ MainHandler(UnicodeEncodeError)
    /\ UNCHANGED <<windows, op, loc, last_reply, submission>>

\* Line 115.
PathForDialog(path) ==
    ReplaceChar(path, "/", "\\")

PrepareCalls ==
    <<Call("main_window.set_focus", 0), Call("main_window.menu_select", 0)>>

\* Lines 111-123: file written, window restored and focused, menu selected.
ExecPrepare ==
    /\ pc = "exec_prepare"
    /\ TempPath \notin files
    /\ Utf8Encodable(loc.python_code)
    /\ files' = files \cup {TempPath}
    /\ loc' = [loc EXCEPT !.script_file_path = TempPath,
                          !.script_file_path_for_dialog = PathForDialog(TempPath)]
    /\ calls' = calls \o <<Query("tempfile.NamedTemporaryFile", 0, "true")>> \o PrepareCalls
    /\ pc' = "exec_dialog"
    /\ UNCHANGED <<abaqus_app_instance_cache, abaqus_main_window_cache, windows,
                   op, result, last_reply, submission>>

\* Lines 117-122: is_minimized, restore, set_focus or menu_select raises.
ExecPrepareRaises ==
    /\ pc = "exec_prepare"
    /\ TempPath \notin files
    /\ Utf8Encodable(loc.python_code)
    /\ files' = files \cup {TempPath}
    /\ loc' = [loc EXCEPT !.script_file_path = TempPath,
                          !.script_file_path_for_dialog = PathForDialog(TempPath)]
    /\ \E e \in CollaboratorErrors, n \in 1..Len(PrepareCalls) :
          /\ calls' = calls \o <<Query("tempfile.NamedTemporaryFile", 0, "true")>>
                            \o SubSeq(PrepareCalls, 1, n)
          /\ MainHandler(e)
    /\ UNCHANGED <<windows, op, last_reply, submission>>

\* The existence checks made for the given tiers: all fail but the last,
\* which ends as given.
ExistsCalls(name, tiers, last) ==
    [i \in 1..Len(tiers) |->
        Query(name, tiers[i], IF i < Len(tiers) THEN "false" ELSE last)]

\* What a window handed back by top_window(), active() or children() shows.
DialogTitles ==
    {TextRunScript, TextSelectFile \o <<"s">>, TitleCae}
DialogStates ==
    [exists : BOOLEAN, title : DialogTitles]
ChildLists ==
    {<<>>} \cup {<<d>> : d \in DialogStates}
           \cup {<<d1, d2>> : d1 \in DialogStates, d2 \in DialogStates}

\* Lines 128-129, 135-136 and 144.
DialogMatches(d) ==
    /\ d.exists
    /\ \/ Contains(d.title, TextRunScript)
       \/ Contains(d.title, TextSelectFile)

AnyChildMatches(ch) ==
    \E i \in 1..Len(ch) : DialogMatches(ch[i])

\* Lines 125-147: the tiers attempted, given what each tier would show.
DialogTiers(d1, d2, ch) ==
    IF DialogMatches(d1) THEN <<1>>
    ELSE IF DialogMatches(d2) THEN <<1, 2>>
    ELSE <<1, 2, 3>>

DialogFound(d1, d2, ch) ==
    \/ DialogMatches(d1)
    \/ DialogMatches(d2)
    \/ AnyChildMatches(ch)

\* Whether the window tier n looks at is the dialog.
TierMatches(n, d1, d2, ch) ==
    IF n = 1 THEN DialogMatches(d1)
    ELSE IF n = 2 THEN DialogMatches(d2)
    ELSE AnyChildMatches(ch)

\* The attempts made, each with what it found.
TierCalls(tiers, d1, d2, ch) ==
    [i \in 1..Len(tiers) |->
        Query("dialog.tier", tiers[i],
              IF TierMatches(tiers[i], d1, d2, ch) THEN "true" ELSE "false")]

DialogObj(tier) ==
    [obj |-> "dialog", tier |-> tier]

\* Lines 125-149 with a dialog identified.
ExecDialogFound ==
    /\ pc = "exec_dialog"
    /\ \E d1 \in DialogStates, d2 \in DialogStates, ch \in ChildLists :
          LET tiers == DialogTiers(d1, d2, ch)
          IN  /\ DialogFound(d1, d2, ch)
              /\ calls' = calls \o TierCalls(tiers, d1, d2, ch)
              /\ loc' = [loc EXCEPT !.run_script_dialog = DialogObj(tiers[Len(tiers)]),
                                    !.dialog_found = TRUE]
    /\ pc' = "exec_edit"
    /\ UNCHANGED <<abaqus_app_instance_cache, abaqus_main_window_cache, windows,
                   files, op, result, last_reply, submission>>

\* Lines 149-153: no tier matched; the exception of line 150 is caught at
\* line 151 and the operation returns from there.
ExecDialogNotFound ==
    /\ pc = "exec_dialog"
    /\ \E d1 \in DialogStates, d2 \in DialogStates, ch \in ChildLists :
          LET tiers == DialogTiers(d1, d2, ch)
          IN  /\ ~DialogFound(d1, d2, ch)
              /\ calls' = calls \o TierCalls(tiers, d1, d2, ch)
              /\ loc' = [loc EXCEPT !.run_script_dialog = DialogObj(2)]
    /\ result' = Str("MsgFailedFindDialog", MsgDialogNotFoundExc)
    /\ pc' = "exec_finally"
    /\ UNCHANGED <<abaqus_app_instance_cache, abaqus_main_window_cache, windows,
                   files, op, last_reply, submission>>

\* Lines 127-147: a call of tier n raises; line 151 catches it.
ExecDialogRaises ==
    /\ pc = "exec_dialog"
    /\ \E e \in CollaboratorErrors, n \in 1..3 :
          /\ calls' = calls \o ExistsCalls("dialog.tier", [i \in 1..n |-> i], "raised")
          /\ loc' = [loc EXCEPT !.run_script_dialog =
                                   IF n = 1 THEN None ELSE DialogObj(n - 1)]
          /\ result' = Str("MsgFailedFindDialog", e.msg)
    /\ pc' = "exec_finally"
    /\ UNCHANGED <<abaqus_app_instance_cache, abaqus_main_window_cache, windows,
                   files, op, last_reply, submission>>

\* What pywinauto raises when a control of the dialog cannot be reached in time.
ControlErrors ==
    {TimeoutError}

\* Lines 201-203: the handler of the inner try block keeps str(e) and goes on
\* to close the dialog.
InteractHandler(e) ==
    /\ loc' = [loc EXCEPT !.error_detail = e.msg]
    /\ pc' = "exec_interact_error"

\* Lines 158-170: the tiers whose exists(timeout=1) is evaluated, given what
\* each tier's check would answer: title "File &name:" + Edit, Edit with
\* found_index 0, generic Edit.
EditTiers(e1, e2, e3) ==
    IF e1 THEN <<1>>
    ELSE IF e2 THEN <<1, 2>>
    ELSE <<1, 2, 3>>

EditObj(tier) ==
    [obj |-> "edit", tier |-> tier]

\* Lines 156-170 with a control resolved.
ExecResolveEdit ==
    /\ pc = "exec_edit"
    /\ \E e1 \in BOOLEAN, e2 \in BOOLEAN, e3 \in BOOLEAN :
          LET tiers == EditTiers(e1, e2, e3)
          IN  /\ e1 \/ e2 \/ e3
              /\ calls' = calls \o ExistsCalls("edit.exists", tiers, "true")
              /\ loc' = [loc EXCEPT !.file_name_edit = EditObj(tiers[Len(tiers)])]
    /\ pc' = "exec_settext"
    /\ UNCHANGED <<abaqus_app_instance_cache, abaqus_main_window_cache, windows,
                   files, op, result, last_reply, submission>>

\* Lines 156-173 with every tier's check failing: line 173 raises.
ExecEditNotFound ==
    /\ pc = "exec_edit"
    /\ calls' = calls \o ExistsCalls("edit.exists", EditTiers(FALSE, FALSE, FALSE), "false")
    /\ InteractHandler(Raise("Exception", MsgEditNotFoundExc))
    /\ UNCHANGED <<abaqus_app_instance_cache, abaqus_main_window_cache, windows,
                   files, op, result, last_reply, submission>>

\* The calls up to the one that raises in tier n: wrapper_object() after the
\* check of tier 1 or 2 succeeded, or the attribute lookup of tier 3.
ResolveRaisesCalls(ctl, n) ==
    IF n < 3
    THEN ExistsCalls(ctl \o ".exists", [i \in 1..n |-> i], "true")
         \o <<Query(ctl \o ".wrapper_object", n, "raised")>>
    ELSE ExistsCalls(ctl \o ".exists", <<1, 2>>, "false")
         \o <<Query(ctl \o ".lookup", 3, "raised")>>

\* Lines 158-170: a call of tier n raises; line 201 catches it.
ExecResolveEditRaises ==
    /\ pc = "exec_edit"
    /\ \E e \in ControlErrors, n \in 1..3 :
          /\ calls' = calls \o ResolveRaisesCalls("edit", n)
          /\ InteractHandler(e)
    /\ UNCHANGED <<abaqus_app_instance_cache, abaqus_main_window_cache, windows,
                   files, op, result, last_reply, submission>>

\* A call that writes into or clicks a control of the dialog.
Interaction(name, control, text, ok) ==
    [call |-> name, arg |-> control.tier, text |-> text, ok |-> ok]

\* Lines 175-176.
ExecSetText ==
    /\ pc = "exec_settext"
    /\ calls' = calls \o <<Interaction("set_edit_text", loc.file_name_edit,
                                       loc.script_file_path_for_dialog, "true")>>
    /\ pc' = "exec_button"
    /\ UNCHANGED <<abaqus_app_instance_cache, abaqus_main_window_cache, windows,
                   files, op, loc, result, last_reply, submission>>

ExecSetTextRaises ==
    /\ pc = "exec_settext"
    /\ calls' = calls \o <<Interaction("set_edit_text", loc.file_name_edit,
                                       loc.script_file_path_for_dialog, "raised")>>
    /\ \E e \in ControlErrors : InteractHandler(e)
    /\ UNCHANGED <<abaqus_app_instance_cache, abaqus_main_window_cache, windows,
                   files, op, result, last_reply, submission>>

\* Lines 180-192: as for the text input: title regex "OK|Run|Open" + Button,
\* Button with found_index 0, generic Button.
ButtonTiers(b1, b2, b3) ==
    IF b1 THEN <<1>>
    ELSE IF b2 THEN <<1, 2>>
    ELSE <<1, 2, 3>>

ButtonObj(tier) ==
    [obj |-> "button", tier |-> tier]

\* Lines 178-192 with a control resolved.
ExecResolveButton ==
    /\ pc = "exec_button"
    /\ \E b1 \in BOOLEAN, b2 \in BOOLEAN, b3 \in BOOLEAN :
          LET tiers == ButtonTiers(b1, b2, b3)
          IN  /\ b1 \/ b2 \/ b3
              /\ calls' = calls \o ExistsCalls("button.exists", tiers, "true")
              /\ loc' = [loc EXCEPT !.ok_button = ButtonObj(tiers[Len(tiers)])]
    /\ pc' = "exec_click"
    /\ UNCHANGED <<abaqus_app_instance_cache, abaqus_main_window_cache, windows,
                   files, op, result, last_reply, submission>>

\* Lines 178-195 with every tier's check failing: line 195 raises.
ExecButtonNotFound ==
    /\ pc = "exec_button"
    /\ calls' = calls \o ExistsCalls("button.exists", ButtonTiers(FALSE, FALSE, FALSE), "false")
    /\ InteractHandler(Raise("Exception", MsgButtonNotFoundExc))
    /\ UNCHANGED <<abaqus_app_instance_cache, abaqus_main_window_cache, windows,
                   files, op, result, last_reply, submission>>

\* Lines 180-192: a call of tier n raises; line 201 catches it.
ExecResolveButtonRaises ==
    /\ pc = "exec_button"
    /\ \E e \in ControlErrors, n \in 1..3 :
          /\ calls' = calls \o ResolveRaisesCalls("button", n)
          /\ InteractHandler(e)
    /\ UNCHANGED <<abaqus_app_instance_cache, abaqus_main_window_cache, windows,
                   files, op, result, last_reply, submission>>

\* Lines 197-199: the click, and the return value is fixed; the finally
\* block still runs before the operation returns.
ExecClick ==
    /\ pc = "exec_click"
    /\ calls' = calls \o <<Interaction("click_input", loc.ok_button, <<>>, "true")>>
    /\ result' = Str("MsgSubmitted", loc.script_file_path)
    /\ submission' = [path |-> loc.script_file_path_for_dialog, read |-> "pending"]
    /\ pc' = "exec_finally"
    /\ UNCHANGED <<abaqus_app_instance_cache, abaqus_main_window_cache, windows,
                   files, op, loc, last_reply>>

\* The target handles the confirmed dialog on its own thread, at any moment
\* after the click of line 197: it opens the file the typed path names.
TargetReadsScript ==
    /\ Truthy(submission)
    /\ submission.read = "pending"
    /\ submission' = [submission EXCEPT !.read =
                         IF \E f \in files : PathForDialog(f) = submission.path
                         THEN "found" ELSE "missing"]
    /\ UNCHANGED <<abaqus_app_instance_cache, abaqus_main_window_cache, windows,
                   files, op, pc, loc, calls, result, last_reply>>

ExecClickRaises ==
    /\ pc = "exec_click"
    /\ calls' = calls \o <<Interaction("click_input", loc.ok_button, <<>>, "raised")>>
    /\ \E e \in ControlErrors : InteractHandler(e)
    /\ UNCHANGED <<abaqus_app_instance_cache, abaqus_main_window_cache, windows,
                   files, op, result, last_reply, submission>>

\* Lines 204-207: close the dialog if it is still there (a failing close is
\* ignored) and return the diagnostic.
ExecInteractError ==
    /\ pc = "exec_interact_error"
    /\ \E there \in BOOLEAN, closed \in {"true", "raised"} :
          calls' = calls \o
              (IF there
               THEN <<Query("dialog.exists", 0, "true"),
                      Query("dialog.close", 0, closed)>>
               ELSE <<Query("dialog.exists", 0, "false")>>)
    /\ result' = Str("MsgFailedInteract", loc.error_detail)
    /\ pc' = "exec_finally"
    /\ UNCHANGED <<abaqus_app_instance_cache, abaqus_main_window_cache, windows,
                   files, op, loc, last_reply, submission>>

\* Line 204: run_script_dialog.exists() raises inside the handler; the outer
\* try block catches it.
ExecInteractErrorRaises ==
    /\ pc = "exec_interact_error"
    /\ calls' = calls \o <<Query("dialog.exists", 0, "raised")>>
    /\ \E e \in ControlErrors : MainHandler(e)
    /\ UNCHANGED <<windows, files, op, loc, last_reply, submission>>

\* Line 218: the condition under which os.remove is called.
RemoveAttempted(script_file_path) ==
    /\ Truthy(script_file_path)
    /\ script_file_path \in files

\* Lines 217-221: the finally block; the value fixed before is returned.
ExecFinallyRemoves ==
    /\ pc = "exec_finally"
    /\ RemoveAttempted(loc.script_file_path)
    /\ calls' = calls \o <<Query("os.remove", 0, "true")>>
    /\ files' = files \ {loc.script_file_path}
    /\ pc' = "done"
    /\ UNCHANGED <<abaqus_app_instance_cache, abaqus_main_window_cache, windows,
                   op, loc, result, last_reply, submission>>

\* Lines 219-221: os.remove raises; a warning is printed.
ExecFinallyRemoveFails ==
    /\ pc = "exec_finally"
    /\ RemoveAttempted(loc.script_file_path)
    /\ calls' = calls \o <<Query("os.remove", 0, "raised")>>
    /\ pc' = "done"
    /\ UNCHANGED <<abaqus_app_instance_cache, abaqus_main_window_cache, windows,
                   files, op, loc, result, last_reply, submission>>

ExecFinallySkips ==
    /\ pc = "exec_finally"
    /\ ~RemoveAttempted(loc.script_file_path)
    /\ pc' = "done"
    /\ UNCHANGED <<abaqus_app_instance_cache, abaqus_main_window_cache, windows,
                   files, op, loc, calls, result, last_reply, submission>>

\* ------------------------------------------------ get_abaqus_message_log
\* Lines 250-253.
LogWindowNotFound ==
    /\ pc = "log_check"
    /\ WindowMissing(loc.main_window)
    /\ calls' = calls \o CheckCalls(loc.main_window)
    /\ abaqus_app_instance_cache' = None
    /\ abaqus_main_window_cache' = None
    /\ pc' = "done"
    /\ result' = Str("MsgLogWindowNotFound", <<>>)
    /\ UNCHANGED <<windows, files, op, loc, last_reply, submission>>

\* Line 250: main_window.exists() raises outside the try block.
LogCheckRaises ==
    /\ pc = "log_check"
    /\ Truthy(loc.main_window)
    /\ calls' = calls \o CheckCalls(loc.main_window)
    /\ \E e \in CollaboratorErrors : Escapes(e)
    /\ UNCHANGED <<abaqus_app_instance_cache, abaqus_main_window_cache, windows,
                   files, op, loc, last_reply, submission>>

\* The thresholds of lines 273 and 288.
MinPaneHeight == 100
MinPaneWidth == 200
MinEditHeight == 50

\* Python values as far as the comparisons of lines 273 and 288 tell them
\* apart: rectangle().width() is a number, rectangle().height (not called)
\* is the bound method itself.
PyInt(v) ==
    [type |-> "int", value |-> v]
PyMethod(v) ==
    [type |-> "method", value |-> v]
\* a > n in Python: "true", "false", or TypeError when a is no number.
PyGreater(a, n) ==
    IF a.type = "int"
    THEN (IF a.value > n THEN "true" ELSE "false")
    ELSE "TypeError"
\* Lines 273 and 288: <element>.rectangle().height
RectangleHeight(el) ==
    PyMethod(el.height)
\* Line 273: pane.rectangle().width()
RectangleWidth(el) ==
    PyInt(el.width)

\* The lines the generator of lines 278 and 290 visits: those of the groups
\* that are not empty.
RECURSIVE LinesOf(_)
LinesOf(texts) ==
    IF texts = <<>> THEN <<>>
    ELSE Head(texts) \o LinesOf(Tail(texts))

\* Lines 278 and 290: texts and any(line.strip() ...): "true", "false", or
\* AttributeError when a None line is reached before a non-blank one.
RECURSIVE AnyStripped(_)
AnyStripped(lines) ==
    IF lines = <<>> THEN "false"
    ELSE IF Head(lines).null THEN "AttributeError"
    ELSE IF Strip(Head(lines).s) # <<>> THEN "true"
    ELSE AnyStripped(Tail(lines))
HasNonBlankLine(texts) ==
    AnyStripped(LinesOf(texts))

\* Lines 273-280 for one pane: "select", "skip" or the exception raised.
PaneFilter(pane) ==
    IF ~pane.visible THEN "skip"
    ELSE LET h == PyGreater(RectangleHeight(pane), MinPaneHeight)
         IN  IF h = "TypeError" THEN h
             ELSE IF h = "false" THEN "skip"
             ELSE IF PyGreater(RectangleWidth(pane), MinPaneWidth) = "false" THEN "skip"
             ELSE IF ~Contains(pane.class_name, ClassMarker) THEN "skip"
             ELSE LET t == HasNonBlankLine(pane.texts)
                  IN  IF t = "true" THEN "select"
                      ELSE IF t = "false" THEN "skip"
                      ELSE t

\* Lines 288-292 for one edit control.
EditFilter(edit) ==
    IF ~(edit.visible /\ ~edit.editable) THEN "skip"
    ELSE LET h == PyGreater(RectangleHeight(edit), MinEditHeight)
         IN  IF h = "TypeError" THEN h
             ELSE IF h = "false" THEN "skip"
             ELSE LET t == HasNonBlankLine(edit.texts)
                  IN  IF t = "true" THEN "select"
                      ELSE IF t = "false" THEN "skip"
                      ELSE t

\* The loops of lines 271-280 and 286-292: the first element, from position
\* i on, that the filter does not skip decides.
RECURSIVE Heuristic(_, _)
Heuristic(outcomes, i) ==
    IF i > Len(outcomes) THEN [status |-> "none", index |-> 0]
    ELSE IF outcomes[i] = "skip" THEN Heuristic(outcomes, i + 1)
    ELSE IF outcomes[i] = "select" THEN [status |-> "selected", index |-> i]
    ELSE [status |-> outcomes[i], index |-> i]

PaneHeuristic(t) ==
    Heuristic([i \in 1..Len(t.panes) |-> PaneFilter(t.panes[i])], 1)
EditHeuristic(t) ==
    Heuristic([i \in 1..Len(t.edits) |-> EditFilter(t.edits[i])], 1)

\* Lines 268-293: message_area_control, or the exception raised on the way,
\* together with the descendants() enumerations made.
FindMessageArea(t) ==
    LET p == PaneHeuristic(t)
        e == EditHeuristic(t)
        paneCall == <<Call("main_window.descendants.Pane", 0)>>
        editCall == <<Call("main_window.descendants.Edit", 0)>>
    IN  IF p.status = "selected"
        THEN [status |-> "selected", control |-> t.panes[p.index], by |-> "pane",
              calls |-> paneCall]
        ELSE IF p.status # "none"
        THEN [status |-> p.status, control |-> None, by |-> "pane", calls |-> paneCall]
        ELSE IF e.status = "selected"
        THEN [status |-> "selected", control |-> t.edits[e.index], by |-> "edit",
              calls |-> paneCall \o editCall]
        ELSE [status |-> e.status, control |-> None, by |-> "edit",
              calls |-> paneCall \o editCall]

\* A stricter variant of the line filter of line 304, which also drops the
\* lines that strip() empties; the flattening property is sensitive to it.
KeptLinesDroppingBlank(texts) ==
    SelectSeq(LinesOf(texts), LAMBDA l : ~l.null /\ Strip(l.s) # <<>>)

\* Lines 299-307: the lines kept (group not empty, line neither None nor
\* empty), joined with newlines and stripped.
KeptLines(texts) ==
    SelectSeq(LinesOf(texts), LAMBDA l : ~l.null /\ l.s # <<>>)
FlattenTexts(texts) ==
    Strip(Join([i \in 1..Len(KeptLines(texts)) |-> KeptLines(texts)[i].s], <<"\n">>))

\* Lines 307-310: the text extracted from the selected control.
LogContent(control) ==
    IF FlattenTexts(control.texts) # <<>>
    THEN FlattenTexts(control.texts)
    ELSE Strip(control.window_text)

\* Lines 298-320: the string returned once the search is over.
LogResult(area, present) ==
    IF area.status = "selected" /\ present
    THEN IF LogContent(area.control) # <<>>
         THEN Str("MsgLogContent", LogContent(area.control))
         ELSE Str("MsgLogNoText", <<>>)
    ELSE Str("MsgLogNotFound", <<>>)

ExceptionNamed(type) ==
    IF type = "TypeError" THEN TypeError ELSE AttributeError

\* Lines 255-325: the search of the tree the window shows at this moment,
\* the extraction and the return; TypeError and AttributeError raised by
\* the filters are caught at line 322.
LogScan ==
    /\ pc = "log_check"
    /\ ~WindowMissing(loc.main_window)
    /\ \E t \in TreeKinds, present \in BOOLEAN :
          LET area == FindMessageArea(t)
          IN  /\ loc' = [loc EXCEPT !.tree = t,
                                    !.message_area_control = area.control]
              /\ calls' = calls \o CheckCalls(loc.main_window) \o area.calls
              /\ IF area.status \in {"selected", "none"}
                 THEN /\ result' = LogResult(area, present)
                      /\ UNCHANGED <<abaqus_app_instance_cache,
                                     abaqus_main_window_cache>>
                 ELSE /\ result' = Str("MsgLogError", ExceptionNamed(area.status).msg)
                      /\ abaqus_app_instance_cache' = None
                      /\ abaqus_main_window_cache' = None
    /\ pc' = "done"
    /\ UNCHANGED <<windows, files, op, last_reply, submission>>

\* Lines 270-310: a call on the tree raises; line 322 catches it.
LogScanRaises ==
    /\ pc = "log_check"
    /\ ~WindowMissing(loc.main_window)
    /\ \E e \in CollaboratorErrors :
          /\ calls' = calls \o CheckCalls(loc.main_window)
                            \o <<Query("main_window.descendants.Pane", 0, "raised")>>
          /\ result' = Str("MsgLogError", e.msg)
    /\ abaqus_app_instance_cache' = None
    /\ abaqus_main_window_cache' = None
    /\ pc' = "done"
    /\ UNCHANGED <<windows, files, op, loc, last_reply, submission>>
Next ==
    \/ TargetChangesWindow
    \/ TargetClosesWindow
    \/ TargetReadsScript
    \/ CallFind
    \/ CallExecuteScript
    \/ CallGetLog
    \/ Return
    \/ FindCacheHit
    \/ FindCacheMiss
    \/ FindCacheRaises
    \/ FindEnumerate
    \/ FindEnumerateRaises
    \/ FindNoCandidate
    \/ FindConnectAccepted
    \/ FindConnectRejected
    \/ FindConnectFails
    \/ ExecWindowNotFound
    \/ ExecWindowFound
    \/ ExecCheckRaises
    \/ ExecTempFails
    \/ ExecWriteFails
    \/ ExecPrepare
    \/ ExecPrepareRaises
    \/ ExecDialogFound
    \/ ExecDialogNotFound
    \/ ExecDialogRaises
    \/ ExecResolveEdit
    \/ ExecEditNotFound
    \/ ExecResolveEditRaises
    \/ ExecSetText
    \/ ExecSetTextRaises
    \/ ExecResolveButton
    \/ ExecButtonNotFound
    \/ ExecResolveButtonRaises
    \/ ExecClick
    \/ ExecClickRaises
    \/ ExecInteractError
    \/ ExecInteractErrorRaises
    \/ ExecFinallyRemoves
    \/ ExecFinallyRemoveFails
    \/ ExecFinallySkips
    \/ LogWindowNotFound
    \/ LogCheckRaises
    \/ LogScan
    \/ LogScanRaises

Spec ==
    Init /\ [][Next]_vars


\* ------------------------------------------------ extraction on its own
\* Lines 298-320 applied to every small texts() value: the operation stands
\* at line 298 with a control selected, whatever the heuristics did before.
LineChoices ==
    {NullLine, EmptyLine, BlankLine, Line1}
GroupsUpTo(n) ==
    UNION {[1..k -> LineChoices] : k \in 0..n}
TextsUpTo(n, m) ==
    UNION {[1..k -> GroupsUpTo(m)] : k \in 0..n}
WindowTexts ==
    {<<>>, <<" ", "w", "t", " ">>}
SelectedControl(texts, window_text) ==
    [visible |-> TRUE, height |-> 150, width |-> 300, class_name |-> ClassFX,
     texts |-> texts, window_text |-> window_text]

ExtractInit ==
    /\ abaqus_app_instance_cache = AppObj(1, 1)
    /\ abaqus_main_window_cache = WinSpec(1, 1)
    /\ windows = [h \in Hwnds |-> IF h = 1 THEN CHOOSE w \in WinKinds :
                                       w.title = TitleCae /\ w.proc = ProcCae
                                  ELSE NoWindow]
    /\ files = {}
    /\ op = "log"
    /\ pc = "log_extract"
    /\ \E texts \in TextsUpTo(MaxGroups, MaxLines), wt \in WindowTexts :
          loc = [LocInit EXCEPT !.app = AppObj(1, 1),
                                !.main_window = WinSpec(1, 1),
                                !.message_area_control = SelectedControl(texts, wt)]
    /\ calls = <<>>
    /\ result = NoResult
    /\ last_reply = None
    /\ submission = None

\* Lines 298-320: message_area_control.exists() answers, then the text is
\* extracted and the string is returned.
LogExtract ==
    /\ pc = "log_extract"
    /\ \E present \in BOOLEAN :
          /\ calls' = calls \o <<Query("message_area_control.exists", 0,
                                       IF present THEN "true" ELSE "false")>>
          /\ result' = LogResult([status |-> "selected",
                                  control |-> loc.message_area_control], present)
    /\ pc' = "done"
    /\ UNCHANGED <<abaqus_app_instance_cache, abaqus_main_window_cache, windows,
                   files, op, loc, last_reply, submission>>

ExtractNext ==
    LogExtract

SpecExtract ==
    ExtractInit /\ [][ExtractNext]_vars

\* ------------------------------------------------------------ properties
Called(log, name) ==
    \E i \in 1..Len(log) : log[i].call = name
CalledOn(log, name, arg) ==
    \E i \in 1..Len(log) : log[i].call = name /\ log[i].arg = arg
CacheIsNull ==
    abaqus_app_instance_cache = None /\ abaqus_main_window_cache = None
Pair(a, w) ==
    [kind |-> "pair", app |-> a, main_window |-> w]
\* The operation made a full rediscovery: the cache check did not succeed.
Rediscovered ==
    Called(calls, "gw.getWindowsWithTitle")

\* C1: no exception ever escapes execute_script or get_abaqus_message_log:
\* whatever collaborator call fails, the operation ends by returning a string.
NoExceptionEscapes ==
    (pc = "done" /\ op \in {"exec", "log"}) => result.kind = "str"

TempFileCreated ==
    \E i \in 1..Len(calls) :
        calls[i].call = "tempfile.NamedTemporaryFile" /\ calls[i].ok = "true"
DeletionAttemptedOnReturn ==
    (pc = "done" /\ op = "exec" /\ TempFileCreated)
        => /\ Called(calls, "os.remove")
           /\ \A i \in 1..Len(calls) :
                 (calls[i].call = "os.remove" /\ calls[i].ok = "true")
                     => TempPath \notin files
DeletionKeepsResult ==
    (pc = "exec_finally" /\ pc' = "done") => result' = result
\* C2: whenever execute_script created its temporary file, os.remove is
\* attempted before the operation returns; if that call does not fail the
\* file is gone on return; and a failing os.remove leaves the returned
\* string as it was.
TempFileAlwaysDeleted ==
    []DeletionAttemptedOnReturn /\ [][DeletionKeepsResult]_vars

FailureResults ==
    {"MsgExecWindowNotFound", "MsgLogWindowNotFound", "MsgFailedFindDialog",
     "MsgFailedInteract", "MsgTimeout", "MsgExecError", "MsgLogError"}
\* C3: whenever execute_script or get_abaqus_message_log returns one of its
\* failure strings (window not found, dialog not found, control not found,
\* timeout, any other exception), both cache variables are None on return.
FailureClearsCache ==
    (pc = "done" /\ op \in {"exec", "log"} /\ result.kind = "str"
        /\ result.msg \in FailureResults)
        => CacheIsNull

CachePaired ==
    \/ CacheIsNull
    \/ /\ Truthy(abaqus_app_instance_cache)
       /\ Truthy(abaqus_main_window_cache)
       /\ abaqus_app_instance_cache.id = abaqus_main_window_cache.id
       /\ abaqus_app_instance_cache.hwnd = abaqus_main_window_cache.hwnd
ChecksCalled(log, hwnd) ==
    \/ CalledOn(log, "cache.exists", hwnd) /\ CalledOn(log, "cache.is_visible", hwnd)
    \/ CalledOn(log, "main_window.exists", hwnd)
          /\ CalledOn(log, "main_window.is_visible", hwnd)
StoredAfterChecks ==
    (abaqus_main_window_cache' # abaqus_main_window_cache
        /\ Truthy(abaqus_main_window_cache'))
        => LET h == abaqus_main_window_cache'.hwnd
           IN  /\ windows[h] # NoWindow
               /\ windows[h].visible
               /\ CalledOn(calls', "main_window.exists", h)
               /\ CalledOn(calls', "main_window.is_visible", h)
HandedBack(a, w) ==
    \/ a = None /\ w = None
    \/ /\ Truthy(a)
       /\ Truthy(w)
       /\ a = abaqus_app_instance_cache'
       /\ w = abaqus_main_window_cache'
       /\ windows[w.hwnd] # NoWindow
       /\ windows[w.hwnd].visible
       /\ ChecksCalled(calls', w.hwnd)
FindHandsBackValidPair ==
    /\ (op = "find" /\ pc # "done" /\ pc' = "done" /\ result'.kind = "pair")
          => HandedBack(result'.app, result'.main_window)
    /\ (pc \in {"find_cache", "find_connect"} /\ pc' \in {"exec_check", "log_check"})
          => HandedBack(loc'.app, loc'.main_window)
\* C4: the two cache variables are both None or both set (to the two objects
\* of one connection); a pair is stored only in a step in which its window
\* exists and is visible, after exists() and is_visible() were called on it;
\* and a pair handed back by find_abaqus_window_and_app is (None, None) or the
\* cached pair, whose window exists and is visible at that moment and had
\* both checks called on it during the call.
CacheNeverPartialOrUnchecked ==
    []CachePaired /\ [][StoredAfterChecks /\ FindHandsBackValidPair]_vars
CacheStoredAndReturned ==
    /\ pc = "done"
    /\ op = "find"
    /\ result.kind = "pair"
    /\ Truthy(result.app)
    /\ result.app = abaqus_app_instance_cache
    /\ Called(calls, "Application.connect")

CachedWindowFailsCheck ==
    /\ Truthy(abaqus_app_instance_cache)
    /\ Truthy(abaqus_main_window_cache)
    /\ \/ windows[abaqus_main_window_cache.hwnd] = NoWindow
       \/ ~windows[abaqus_main_window_cache.hwnd].visible
StaleCacheCleared ==
    (pc = "find_cache" /\ pc' # "find_cache" /\ CachedWindowFailsCheck
        /\ result'.kind # "raised")
        => /\ abaqus_app_instance_cache' = None
           /\ abaqus_main_window_cache' = None
           /\ pc' = "find_enum"
FreshOrNothing ==
    (pc = "done" /\ op = "find" /\ result.kind = "pair"
        /\ Truthy(loc.stale_win) /\ Rediscovered)
        => /\ result.app # loc.stale_app
           /\ result.main_window # loc.stale_win
           /\ \/ result.app = None /\ result.main_window = None
              \/ /\ Truthy(result.app)
                 /\ Truthy(result.main_window)
                 /\ result.app = abaqus_app_instance_cache
                 /\ result.main_window = abaqus_main_window_cache
                 /\ CalledOn(calls, "psutil.Process", result.main_window.hwnd)
                 /\ CalledOn(calls, "Application.connect", result.main_window.hwnd)
                 /\ CalledOn(calls, "main_window.exists", result.main_window.hwnd)
                 /\ CalledOn(calls, "main_window.is_visible", result.main_window.hwnd)
\* C5: when the cached window does not exist or is not visible, the cached
\* pair is not returned: the cache is cleared and the windows are enumerated;
\* what find_abaqus_window_and_app then returns is (None, None) or a new pair,
\* different from the stale one, obtained by process lookup and a new
\* connection and checked with exists() and is_visible().
StaleCacheRediscovered ==
    []FreshOrNothing /\ [][StaleCacheCleared]_vars
StalePairReplaced ==
    /\ pc = "done"
    /\ op = "find"
    /\ result.kind = "pair"
    /\ Truthy(loc.stale_win)
    /\ windows[loc.stale_win.hwnd] # NoWindow
    /\ ~windows[loc.stale_win.hwnd].visible
    /\ Truthy(result.main_window)
    /\ result.main_window.hwnd # loc.stale_win.hwnd

CachedWindowPassesCheck ==
    /\ Truthy(abaqus_app_instance_cache)
    /\ Truthy(abaqus_main_window_cache)
    /\ windows[abaqus_main_window_cache.hwnd] # NoWindow
    /\ windows[abaqus_main_window_cache.hwnd].visible
CacheHitStep ==
    (pc = "find_cache" /\ pc' # "find_cache" /\ CachedWindowPassesCheck
        /\ result'.kind # "raised")
        => /\ abaqus_app_instance_cache' = abaqus_app_instance_cache
           /\ abaqus_main_window_cache' = abaqus_main_window_cache
           /\ IF op = "find"
              THEN /\ pc' = "done"
                   /\ result' = Pair(abaqus_app_instance_cache,
                                     abaqus_main_window_cache)
              ELSE /\ pc' \in {"exec_check", "log_check"}
                   /\ loc'.app = abaqus_app_instance_cache
                   /\ loc'.main_window = abaqus_main_window_cache
           /\ ~Called(calls', "gw.getWindowsWithTitle")
           /\ ~Called(calls', "GetWindowThreadProcessId")
           /\ ~Called(calls', "psutil.Process")
           /\ ~Called(calls', "Application.connect")
\* C6: when the cached window exists and is visible (and both checks
\* answer), find_abaqus_window_and_app hands back exactly the cached pair,
\* leaves both cache variables as they are, and makes no enumeration, no
\* process lookup and no connection.
ValidCacheReturnedUnchanged ==
    [][CacheHitStep]_vars
CachedPairReturned ==
    /\ pc = "done"
    /\ op = "find"
    /\ Truthy(loc.stale_app)
    /\ result = Pair(loc.stale_app, loc.stale_win)
    /\ calls = <<Call("cache.exists", loc.stale_win.hwnd),
                 Call("cache.is_visible", loc.stale_win.hwnd)>>

PhraseWindowNotFound ==
    <<"w", "i", "n", "d", "o", "w", " ", "n", "o", "t", " ", "f", "o", "u", "n", "d">>
NoTitledWindow ==
    \A h \in Hwnds :
        windows[h] = NoWindow \/ ~StartsWith(windows[h].title, TitleQuery)
\* C7: when no window's title begins with "Abaqus/CAE" and the cache check
\* did not succeed, find_abaqus_window_and_app returns (None, None) and
\* execute_script and get_abaqus_message_log return a string containing
\* "window not found"; the cache is None on return.
NoWindowNoSession ==
    (pc = "done" /\ result.kind # "raised" /\ NoTitledWindow /\ Rediscovered)
        => /\ CacheIsNull
           /\ IF op = "find"
              THEN result = Pair(None, None)
              ELSE /\ result.kind = "str"
                   /\ Contains(Text(result), PhraseWindowNotFound)
ExecReportsWindowNotFound ==
    /\ pc = "done"
    /\ op = "exec"
    /\ result.kind = "str"
    /\ NoTitledWindow
    /\ Rediscovered
    /\ \E h \in Hwnds : windows[h] # NoWindow /\ windows[h].visible
    /\ Contains(Text(result), PhraseWindowNotFound)

Titled(h) ==
    windows[h] # NoWindow /\ StartsWith(windows[h].title, TitleQuery)
Qualifies(h) ==
    /\ Titled(h)
    /\ windows[h].procErr \notin PsutilErrors
    /\ LET n == Lower(windows[h].proc)
       IN  /\ Contains(n, MarkAbaqus)
           /\ Contains(n, MarkCae) \/ Contains(n, MarkViewer)
FirstQualifying ==
    CHOOSE h \in Hwnds : Qualifies(h) /\ \A g \in Hwnds : Qualifies(g) => h <= g
EnumerationSelectsFirst ==
    (pc = "find_enum" /\ pc' = "find_connect")
        => IF \E h \in Hwnds : Qualifies(h)
           THEN /\ loc'.found_win_obj = WinRef(FirstQualifying)
                /\ \A h \in Hwnds :
                      /\ (Titled(h) /\ h <= FirstQualifying)
                            => CalledOn(calls', "psutil.Process", h)
                      /\ h > FirstQualifying
                            => ~CalledOn(calls', "psutil.Process", h)
           ELSE /\ loc'.found_win_obj = None
                /\ \A h \in Hwnds :
                      Titled(h) => CalledOn(calls', "psutil.Process", h)
NothingSelectedNothingReturned ==
    (pc = "find_connect" /\ pc' # "find_connect" /\ loc.found_win_obj = None)
        => IF op = "find"
           THEN result' = Pair(None, None)
           ELSE loc'.app = None /\ loc'.main_window = None
\* C8: the enumeration step selects the first window, in enumeration order,
\* whose title begins with "Abaqus/CAE" and whose process name (which can be
\* read) contains "abaqus" and "cae" or "viewer" in any letter case; every
\* window with the title before it had its process looked up and was passed
\* over, none after it is looked at; with no such window nothing is selected
\* and find_abaqus_window_and_app hands back (None, None).
FirstQualifyingWindowSelected ==
    [][EnumerationSelectsFirst /\ NothingSelectedNothingReturned]_vars
UnfitWindowSkipped ==
    /\ pc = "find_connect"
    /\ loc.found_win_obj = WinRef(2)
    /\ Titled(1)
    /\ windows[1].procErr = "AccessDenied" \/ windows[1].proc = ProcCoreOnly
    /\ CalledOn(calls, "psutil.Process", 1)

ExistsQueries(name) ==
    SelectSeq(calls, LAMBDA c : c.call = name)
InTierOrder(q) ==
    /\ Len(q) <= 3
    /\ \A i \in 1..Len(q) :
          /\ q[i].arg = i
          /\ i < Len(q) => q[i].ok = "false"
FromFirstSuccess(q, control) ==
    /\ Len(q) > 0
    /\ q[Len(q)].ok = "true"
    /\ control.tier = Len(q)
UsedOn(name, control) ==
    \A i \in 1..Len(calls) :
        calls[i].call = name => (Truthy(control) /\ calls[i].arg = control.tier)
\* C9: the existence checks of the text input are made for tiers 1, 2, 3 in
\* that order, a tier only after every earlier one answered false, and the
\* control used (and written to) is the one of the first tier that answered
\* true; the same for the button that is clicked.
TiersTriedInOrder ==
    op = "exec"
        => /\ InTierOrder(ExistsQueries("edit.exists"))
           /\ InTierOrder(ExistsQueries("button.exists"))
           /\ Truthy(loc.file_name_edit)
                 => FromFirstSuccess(ExistsQueries("edit.exists"), loc.file_name_edit)
           /\ Truthy(loc.ok_button)
                 => FromFirstSuccess(ExistsQueries("button.exists"), loc.ok_button)
           /\ UsedOn("set_edit_text", loc.file_name_edit)
           /\ UsedOn("click_input", loc.ok_button)
LaterTiersUsed ==
    /\ pc = "done"
    /\ op = "exec"
    /\ result.kind = "str"
    /\ result.msg = "MsgSubmitted"
    /\ loc.file_name_edit.tier = 2
    /\ loc.ok_button.tier = 3
    /\ Len(ExistsQueries("button.exists")) = 3

PanePassesFilters(p) ==
    /\ p.visible
    /\ p.height > MinPaneHeight
    /\ p.width > MinPaneWidth
    /\ Contains(p.class_name, ClassMarker)
    /\ \E i \in 1..Len(LinesOf(p.texts)) :
          /\ ~LinesOf(p.texts)[i].null
          /\ Strip(LinesOf(p.texts)[i].s) # <<>>
PaneBeforeEdit ==
    \A i \in 1..Len(calls) :
        calls[i].call = "main_window.descendants.Edit"
            => /\ \E j \in 1..(i - 1) : calls[j].call = "main_window.descendants.Pane"
               /\ loc.message_area_control \notin
                     {loc.tree.panes[k] : k \in 1..Len(loc.tree.panes)}
\* C10: the Pane descendants are enumerated before the Edit descendants;
\* the Edit descendants are not enumerated when a pane was selected; and
\* when the tree holds a pane passing every pane filter (visible, height
\* above 100, width above 200, class name containing "FXWindow", a non-blank
\* line of text), the returned string contains that pane's flattened text.
PaneHeuristicFirst ==
    (pc = "done" /\ op = "log" /\ result.kind = "str")
        => /\ PaneBeforeEdit
           /\ \A k \in 1..Len(loc.tree.panes) :
                 PanePassesFilters(loc.tree.panes[k])
                     => Contains(Text(result), FlattenTexts(loc.tree.panes[k].texts))

\* The flattening as the specification words it; whitespace tells whether a
\* line of white space only counts as blank.
IsBlank(l, whitespace) ==
    l.null \/ l.s = <<>> \/ (whitespace /\ Strip(l.s) = <<>>)
RECURSIVE SpecFlatten(_, _)
SpecFlatten(texts, whitespace) ==
    IF texts = <<>> THEN <<>>
    ELSE LET group == SelectSeq(Head(texts), LAMBDA l : ~IsBlank(l, whitespace))
             rest == SpecFlatten(Tail(texts), whitespace)
         IN  IF group = <<>> THEN rest
             ELSE [i \in 1..Len(group) |-> group[i].s] \o rest
\* What the operation returns for the flattened text t and the control's
\* single-line text.
ExtractionReturns(t) ==
    LET control == loc.message_area_control
    IN  IF t # <<>> THEN result = Str("MsgLogContent", t)
        ELSE IF Strip(control.window_text) # <<>>
        THEN result = Str("MsgLogContent", Strip(control.window_text))
        ELSE result = Str("MsgLogNoText", <<>>)
Extracted ==
    /\ pc = "done"
    /\ op = "log"
    /\ Truthy(loc.message_area_control)
    /\ calls[Len(calls)] = Query("message_area_control.exists", 0, "true")

ControlCalls ==
    {"edit.exists", "edit.wrapper_object", "edit.lookup", "button.exists",
     "button.wrapper_object", "button.lookup", "set_edit_text", "click_input"}
\* All three tiers were attempted and none showed an existing window titled
\* "Run Script" or "Select file".
DialogSearchFailed ==
    \E i \in 1..Len(calls) : calls[i] = Query("dialog.tier", 3, "false")
PhraseDialogNotFound ==
    <<"d", "i", "a", "l", "o", "g", " ", "n", "o", "t", " ", "f", "o", "u", "n", "d">>

\* C12: when none of the three tiers identifies the dialog, execute_script
\* returns the dialog-not-found diagnostic and makes no control lookup on a
\* dialog, no set_edit_text and no click_input in that call.
NoInteractionWithoutDialog ==
    (op = "exec" /\ DialogSearchFailed)
        => /\ \A i \in 1..Len(calls) : calls[i].call \notin ControlCalls
           /\ result = Str("MsgFailedFindDialog", MsgDialogNotFoundExc)
           /\ Contains(Text(result), PhraseDialogNotFound)
           /\ pc \in {"exec_finally", "done"}
DialogNotFoundReturned ==
    /\ pc = "done"
    /\ op = "exec"
    /\ DialogSearchFailed
    /\ result.msg = "MsgFailedFindDialog"
    /\ ~Called(calls, "set_edit_text")

CallsNamed(name) ==
    {i \in 1..Len(calls) : calls[i].call = name}
ControlsResolved ==
    Truthy(loc.file_name_edit) /\ Truthy(loc.ok_button)
InteractionFailed ==
    \E i \in CallsNamed("set_edit_text") \cup CallsNamed("click_input") :
        calls[i].ok = "raised"
DeletionFailed ==
    \E i \in CallsNamed("os.remove") : calls[i].ok = "raised"
WithBackslashes(path) ==
    [i \in 1..Len(path) |-> IF path[i] = "/" THEN "\\" ELSE path[i]]
PhraseSubmitted ==
    <<"s", "u", "b", "m", "i", "t", "t", "e", "d">>
\* The path was written, then the button clicked once, and the string
\* returned says so.
PathWrittenThenClicked ==
    /\ \E i \in 1..Len(calls), j \in 1..Len(calls) :
          /\ i < j
          /\ CallsNamed("set_edit_text") = {i}
          /\ CallsNamed("click_input") = {j}
          /\ calls[i].text = WithBackslashes(loc.script_file_path)
          /\ calls[i].arg = loc.file_name_edit.tier
          /\ calls[j].arg = loc.ok_button.tier
    /\ result.kind = "str"
    /\ Contains(Text(result), PhraseSubmitted)

MutatingCalls ==
    {"main_window.menu_select", "main_window.set_focus", "set_edit_text",
     "click_input", "tempfile.NamedTemporaryFile", "tmp_script.write",
     "dialog.close", "os.remove"}
Scanned ==
    Called(calls, "main_window.descendants.Pane")
\* The call in hand follows a call of get_abaqus_message_log with nothing
\* changed on the target in between, no collaborator call failing in either,
\* and the window scanned, if it is the same, showing the same tree.
RepeatedLogCall ==
    /\ pc = "done"
    /\ op = "log"
    /\ result.kind = "str"
    /\ "result" \in DOMAIN last_reply
    /\ ~last_reply.raised
    /\ ~AnyRaised(calls)
    /\ (Scanned /\ Truthy(last_reply.main_window)
           /\ last_reply.main_window.hwnd = loc.main_window.hwnd)
          => loc.tree = last_reply.tree

\* C14: a call of get_abaqus_message_log that follows another one, with no
\* change of the target in between, returns the same string; and a call of
\* get_abaqus_message_log selects no menu, writes no text, clicks nothing and
\* creates no temporary file.
LogCallRepeatable ==
    /\ op = "log" => \A i \in 1..Len(calls) : calls[i].call \notin MutatingCalls
    /\ RepeatedLogCall => result = last_reply.result

DialogQueries ==
    ExistsQueries("dialog.tier")
\* C15: the dialog is looked for by tier 1, tier 2, tier 3 in that order; a
\* later tier is attempted if and only if every earlier tier failed to yield
\* a matching dialog; and the dialog-not-found string of line 153 is returned
\* only after all three tiers were attempted and failed.
DialogTiersExhaustedInOrder ==
    op = "exec"
        => /\ Len(DialogQueries) <= 3
           /\ \A i \in 1..Len(DialogQueries) :
                 /\ DialogQueries[i].arg = i
                 /\ i < Len(DialogQueries) => DialogQueries[i].ok # "true"
           /\ (Len(DialogQueries) > 0 /\ Len(DialogQueries) < 3)
                 => DialogQueries[Len(DialogQueries)].ok = "true"
           /\ (result.kind = "str" /\ result.msg = "MsgFailedFindDialog")
                 => /\ Len(DialogQueries) = 3
                    /\ \A i \in 1..3 : DialogQueries[i].ok # "true"

Unresolved(name) ==
    ExistsQueries(name) = ExistsCalls(name, <<1, 2, 3>>, "false")
UnresolvedControlMessage ==
    IF Unresolved("edit.exists") THEN MsgEditNotFoundExc ELSE MsgButtonNotFoundExc
CloseFollowsExistence ==
    \A i \in 1..Len(calls) :
        calls[i] = Query("dialog.exists", 0, "true")
            => /\ i < Len(calls)
               /\ calls[i + 1].call = "dialog.close"
\* C16: when the dialog was located and the text input or the button is not
\* resolved by any of its three tiers, execute_script returns the diagnostic
\* that names that control, and before returning it calls close() on the
\* dialog whenever the dialog still exists, whether or not the close fails.
UnresolvedControlNamed ==
    (pc = "done" /\ op = "exec"
        /\ (Unresolved("edit.exists") \/ Unresolved("button.exists")))
        => /\ result = Str("MsgFailedInteract", UnresolvedControlMessage)
           /\ CloseFollowsExistence

IndicesOf(name) ==
    {i \in 1..Len(calls) : calls[i].call = name}
ButtonLookups ==
    {i \in 1..Len(calls) :
        calls[i].call \in {"button.exists", "button.wrapper_object", "button.lookup"}}
Answered(name, i) ==
    \E j \in 1..(i - 1) : calls[j].call = name /\ calls[j].ok = "true"
\* C17 as stated: the path is written into the text input only after both
\* the text input and the button have been resolved, so that a call in which
\* the button is not resolved has written no text.
TextWrittenAfterBothResolved ==
    op = "exec"
        => /\ \A i \in IndicesOf("set_edit_text") :
                 Answered("edit.exists", i) /\ Answered("button.exists", i)
           /\ Unresolved("button.exists") => IndicesOf("set_edit_text") = {}
\* C17 as the code has it: the path is written once the text input is
\* resolved and before any lookup of the button; the click comes after the
\* write and the resolution of the button; a call in which the button is not
\* resolved has written the path exactly once and clicked nothing.
TextWrittenBeforeButtonLookup ==
    op = "exec"
        => /\ \A i \in IndicesOf("set_edit_text") :
                 /\ Answered("edit.exists", i)
                 /\ \A j \in ButtonLookups : i < j
           /\ \A k \in IndicesOf("click_input") :
                 /\ Answered("button.exists", k)
                 /\ \E i \in IndicesOf("set_edit_text") : i < k /\ calls[i].ok = "true"
           /\ Unresolved("button.exists")
                 => /\ Cardinality(IndicesOf("set_edit_text")) = 1
                    /\ \A i \in IndicesOf("set_edit_text") :
                          /\ calls[i].ok = "true"
                          /\ calls[i].text = loc.script_file_path_for_dialog
                    /\ IndicesOf("click_input") = {}
TextWrittenButtonUnresolved ==
    /\ pc = "done"
    /\ op = "exec"
    /\ Unresolved("button.exists")
    /\ IndicesOf("set_edit_text") # {}
    /\ result = Str("MsgFailedInteract", MsgButtonNotFoundExc)

FilePresentWhenTargetReads ==
    Truthy(submission) => submission.read # "missing"
====
